---- MODULE Spec2Model ----
(***************************************************************************)
(* A model of jank's build/link orchestration:                             *)
(*   - bin/ar-merge.ps1, the archiver wrapper that records the object      *)
(*     files of every archive target in a cache directory and later merges *)
(*     them into libjank-standalone(-phase-1).a;                           *)
(*   - the same script run by several processes of one build;              *)
(*   - the compiler lookup and flag filtering of util/clang.cpp and        *)
(*     jit/processor.cpp, as described by the change notes;                *)
(*   - the linker arguments of aot/processor.cpp;                          *)
(*   - the precompiled header: where it is found, when it is built and     *)
(*     how it is loaded.                                                   *)
(*                                                                         *)
(* Strings are sequences of one-character strings, so that the script's    *)
(* text operations (-replace, -match, Trim, -join, Get-Content) are        *)
(* computed character by character.                                        *)
(***************************************************************************)
EXTENDS Integers, Sequences, FiniteSets, TLC

(***************************************************************************)
(* Bounds of the model.                                                    *)
(***************************************************************************)
\* Script invocations in one behaviour.
MaxRuns == 3
\* Object arguments of one pass-through invocation.
MaxObjs == 2
\* The most entries of the user's library-directory and library-name lists.
MaxLibs == 2
\* Calls of ensure_built in one behaviour.
MaxEnsureCalls == 3

(***************************************************************************)
(* Strings.                                                                *)
(***************************************************************************)
NL == "\n"

\* Code points of the characters the model uses (ordinal order of names).
CharCode(c) ==
  CASE c = "\n" -> 10
    [] c = " "  -> 32
    [] c = "-"  -> 45
    [] c = "."  -> 46
    [] c = "/"  -> 47
    [] c = "1"  -> 49
    [] c = "2"  -> 50
    [] c = "3"  -> 51
    [] c = "@"  -> 64
    [] c = "\\" -> 92
    [] c = "_"  -> 95
    [] c = "a"  -> 97
    [] c = "b"  -> 98
    [] c = "c"  -> 99
    [] c = "d"  -> 100
    [] c = "e"  -> 101
    [] c = "g"  -> 103
    [] c = "h"  -> 104
    [] c = "i"  -> 105
    [] c = "j"  -> 106
    [] c = "k"  -> 107
    [] c = "l"  -> 108
    [] c = "m"  -> 109
    [] c = "n"  -> 110
    [] c = "o"  -> 111
    [] c = "p"  -> 112
    [] c = "q"  -> 113
    [] c = "r"  -> 114
    [] c = "s"  -> 115
    [] c = "t"  -> 116
    [] c = "u"  -> 117
    [] c = "x"  -> 120
    [] OTHER    -> 127

RECURSIVE StrLess(_, _)
\* s sorts strictly before t, character by character.
StrLess(s, t) ==
  IF t = <<>> THEN FALSE
  ELSE IF s = <<>> THEN TRUE
  ELSE IF CharCode(Head(s)) # CharCode(Head(t))
       THEN CharCode(Head(s)) < CharCode(Head(t))
       ELSE StrLess(Tail(s), Tail(t))

RECURSIVE Flatten(_)
Flatten(ss) == IF ss = <<>> THEN <<>> ELSE Head(ss) \o Flatten(Tail(ss))

\* The script's configuration (lines 3-5), as CMake fills it in.
cmake_binary_dir == <<"b">>
cache_dir == cmake_binary_dir \o <<"/","a","r","-","c","a","c","h","e">>

\* The subcommands of the switch (lines 24, 32, 44).
clean_cmd == <<"c","l","e","a","n">>
merge_cmd == <<"m","e","r","g","e">>
merge_phase_2_cmd == merge_cmd \o <<"-","p","h","a","s","e","-","2">>

\* $merge_output of the two merge branches (lines 34, 47) and the fixed
\* core object (line 46).
merge_output_1 ==
  cmake_binary_dir \o <<"/","l","i","b","j","a","n","k","-","s","t","a","n","d",
                        "a","l","o","n","e","-","p","h","a","s","e","-","1",".","a">>
merge_output_2 ==
  cmake_binary_dir \o <<"/","l","i","b","j","a","n","k","-","s","t","a","n","d",
                        "a","l","o","n","e",".","a">>
core_o ==
  cmake_binary_dir \o <<"/","c","o","r","e","-","l","i","b","s","/","c","l","o",
                        "j","u","r","e","/","c","o","r","e",".","o">>

(***************************************************************************)
(* PowerShell array semantics.                                             *)
(***************************************************************************)
\* a..b: ascending when a <= b, descending otherwise.
PSRange(a, b) ==
  IF a <= b THEN [i \in 1..(b - a + 1) |-> a + i - 1]
            ELSE [i \in 1..(a - b + 1) |-> a - i + 1]

RECURSIVE PSSlice(_, _)
\* $arr[idxs]: zero-based; a negative index counts from the end; an index
\* outside the array contributes nothing.
PSSlice(arr, idxs) ==
  IF idxs = <<>> THEN <<>>
  ELSE LET i == Head(idxs)
           n == Len(arr)
           here == IF 0 <= i /\ i < n THEN <<arr[i + 1]>>
                   ELSE IF i < 0 /\ -n <= i THEN <<arr[n + i + 1]>>
                   ELSE <<>>
       IN here \o PSSlice(arr, Tail(idxs))

\* $x = <pipeline>: nothing gives $null, one item a scalar, more an array.
PSAssign(items) ==
  IF Len(items) = 0 THEN [kind |-> "null", items |-> <<>>]
  ELSE IF Len(items) = 1 THEN [kind |-> "scalar", items |-> items]
  ELSE [kind |-> "array", items |-> items]

\* $x = @(<pipeline>): always an array.
PSArray(items) == [kind |-> "array", items |-> items]

\* $x += <string>: appends to an array, concatenates to a scalar string,
\* and makes $null the string itself.
PSPlusEq(x, str) ==
  IF x.kind = "array" THEN [kind |-> "array", items |-> Append(x.items, str)]
  ELSE IF x.kind = "scalar" THEN [kind |-> "scalar", items |-> <<x.items[1] \o str>>]
  ELSE [kind |-> "scalar", items |-> <<str>>]

\* @x in a command line: the elements of an array, a scalar as one argument,
\* $null as none.
PSSplat(x) == x.items

(***************************************************************************)
(* Text files.                                                             *)
(***************************************************************************)
RECURSIVE JoinNL(_)
\* $list -join "`n"
JoinNL(ss) ==
  IF ss = <<>> THEN <<>>
  ELSE IF Len(ss) = 1 THEN ss[1]
  ELSE ss[1] \o <<NL>> \o JoinNL(Tail(ss))

\* <string> | Out-File: the string followed by a line terminator.
OutFile(str) == str \o <<NL>>

RECURSIVE SplitOn(_, _, _)
\* The pieces of a text between delimiters; cur is the piece being read.  A
\* text ending in a delimiter has no further (empty) piece after it.
SplitOn(text, cur, delim) ==
  IF text = <<>> THEN (IF cur = <<>> THEN <<>> ELSE <<cur>>)
  ELSE IF Head(text) = delim THEN <<cur>> \o SplitOn(Tail(text), <<>>, delim)
  ELSE SplitOn(Tail(text), Append(cur, Head(text)), delim)

\* Get-Content <file>: the lines of the file.
GetContent(text) == SplitOn(text, <<>>, NL)

IsSpace(c) == c = " " \/ c = NL

RECURSIVE TrimStart(_)
TrimStart(s) == IF s # <<>> /\ IsSpace(Head(s)) THEN TrimStart(Tail(s)) ELSE s

RECURSIVE TrimEnd(_)
TrimEnd(s) ==
  IF s # <<>> /\ IsSpace(s[Len(s)]) THEN TrimEnd(SubSeq(s, 1, Len(s) - 1)) ELSE s

\* $line.Trim()
Trim(s) == TrimEnd(TrimStart(s))

\* Where-Object { $_ }: a string is true unless it is empty.
WhereTrue(ss) == SelectSeq(ss, LAMBDA s : s # <<>>)


(***************************************************************************)
(* State.                                                                  *)
(***************************************************************************)
VARIABLES
  cacheDirExists,  \* whether $cache_dir exists
  cacheFiles,      \* the files of $cache_dir: path |-> text
  rspFiles,        \* the response files of the build directory: name |-> text
  archives,        \* the merged archives on disk: path |-> member list
  arCalls,         \* the archiver command lines of the latest script run
  outcome,         \* how the latest script run ended: "ok" or "error"
  lastArgs,        \* $args of the latest script run
  prevCommand,     \* $command of the script run before the latest one
  intended,        \* sanitized key |-> the object list (response files expanded)
                   \* given to the latest pass-through run for that key
  runs,            \* script runs so far
  ar_fails,        \* whether $ar, on this machine, exits with a nonzero status
  LASTEXITCODE,    \* $LASTEXITCODE: the exit status of the latest $ar run
  writers          \* list file |-> the $output of the run that wrote it

cacheVars == <<cacheDirExists, cacheFiles, rspFiles, archives, arCalls, outcome,
               lastArgs, prevCommand, intended, runs, ar_fails, LASTEXITCODE,
               writers>>

VARIABLES
  process_path,    \* util::process_path()
  home,            \* getenv("HOME"), or Null
  resource_dir,    \* util::resource_dir()
  clang_path,      \* JANK_CLANG_PATH, baked in at build time
  cxx,             \* getenv("CXX"), or Null
  jit_flags,       \* JANK_JIT_FLAGS, baked in at build time
  fsStatus,        \* the file system: path |-> "exists", "absent" or "denied"
  probes,          \* path |-> how often std::filesystem::exists was called on it
  clangResult,     \* what find_clang returned, or Pending
  effectiveFlags   \* the flags kept from JANK_JIT_FLAGS, or Pending

resolverVars == <<process_path, home, resource_dir, clang_path, cxx, jit_flags,
                  fsStatus, probes, clangResult, effectiveFlags>>

VARIABLES
  library_dirs,    \* util::cli::opts.library_dirs
  libs,            \* util::cli::opts.libs
  current_platform,\* jtl::current_platform
  compiler_args    \* the linker arguments of the AOT processor, or Pending

linkVars == <<library_dirs, libs, current_platform, compiler_args>>

VARIABLES
  pc,              \* script process |-> the line it is to run next
  procArgs,        \* script process |-> its $args
  startFiles       \* the files of $cache_dir when the processes were started

concVars == <<pc, procArgs, startFiles>>

VARIABLES
  pch_fs,          \* the precompiled header's paths |-> "exists", "absent", "denied"
  pch_result,      \* what the latest ensure_built call returned, or Pending
  ensure_calls,    \* ensure_built calls so far
  toolchain_runs,  \* how often the toolchain was run to build the header
  pch_builds,      \* how many of those runs built it
  load_args        \* the arguments that load the header, or Pending

pchVars == <<pch_fs, pch_result, ensure_calls, toolchain_runs, pch_builds, load_args>>

vars == <<cacheVars, resolverVars, linkVars, concVars, pchVars>>

\* What a step of one component leaves alone.
otherThanCache == <<resolverVars, linkVars, concVars, pchVars>>
otherThanResolver == <<cacheVars, linkVars, concVars, pchVars>>
otherThanLink == <<cacheVars, resolverVars, concVars, pchVars>>
otherThanPch == <<cacheVars, resolverVars, linkVars, concVars>>

NoFiles == [f \in {} |-> <<>>]

(***************************************************************************)
(* Inputs of the archive cache.                                            *)
(***************************************************************************)
\* Archiver commands CMake passes through the wrapper.
qc == <<"q","c">>
Commands == {qc}

\* Archive output paths of the build's targets.
Targets == { <<"a","/","b">>, <<"a","_","b">>, <<"c">> }

a1_o == <<"a","1",".","o">>
a2_o == <<"a","2",".","o">>
b1_o == <<"b","1",".","o">>
rsp_name == <<"r">>
rsp_ref == <<"@">> \o rsp_name

\* What a response file written by the build system holds: a padded line, a
\* blank line, and a last line without terminator.
rsp_text == <<" ">> \o a2_o \o <<" ", NL, " ", NL>> \o b1_o

ObjArgs == {a1_o, rsp_ref}
ObjArgLists == UNION {[1..n -> ObjArgs] : n \in 0..MaxObjs}

PassThroughArgs ==
  {<<c, t>> \o objs : c \in Commands, t \in Targets, objs \in ObjArgLists}

(***************************************************************************)
(* ar-merge.ps1                                                            *)
(***************************************************************************)
\* Line 15.
remaining_args(args) == PSSlice(args, PSRange(1, Len(args) - 1))

\* Lines 18-20.
EnsureCacheDir(dirExists) == IF ~dirExists THEN TRUE ELSE dirExists

\* Line 58.
object_args(args) ==
  LET rem == remaining_args(args) IN PSSlice(rem, PSRange(1, Len(rem) - 1))

\* Line 59: $output -replace '[/\\]', '_'
Sanitize(output) ==
  [i \in 1..Len(output) |-> IF output[i] \in {"/", "\\"} THEN "_" ELSE output[i]]

\* Line 60.
list_file(output) ==
  cache_dir \o <<"/">> \o Sanitize(output) \o <<".","l","i","s","t">>

\* Line 69: $arg -match '^@(.+)$'
IsRspRef(arg) == Len(arg) >= 2 /\ Head(arg) = "@" /\ \A i \in 2..Len(arg) : arg[i] # NL

RECURSIVE AddTrimmed(_, _)
\* Lines 75-80: every line trimmed, the blank ones left out.
AddTrimmed(expanded, lines) ==
  IF lines = <<>> THEN expanded
  ELSE LET trimmed == Trim(Head(lines))
       IN AddTrimmed(IF trimmed # <<>> THEN Append(expanded, trimmed) ELSE expanded,
                     Tail(lines))

RECURSIVE ExpandArgs(_, _, _)
\* Lines 67-89: $expanded_args, from the arguments still to visit.
ExpandArgs(expanded, objs, rsp) ==
  IF objs = <<>> THEN expanded
  ELSE LET arg == Head(objs)
           next ==
             IF IsRspRef(arg)
             THEN LET rspFile == Tail(arg)
                  IN IF rspFile \in DOMAIN rsp
                     THEN AddTrimmed(expanded, GetContent(rsp[rspFile]))
                     ELSE Append(expanded, arg)
             ELSE Append(expanded, arg)
       IN ExpandArgs(next, Tail(objs), rsp)

\* WriteListFile when the write leaves nothing else in the directory.
WriteListFile_Alone(files, path, expanded) == (path :> OutFile(JoinNL(expanded)))

\* Lines 91-95: the old list file removed, the new one written.
WriteListFile(files, path, expanded) ==
  LET removed == [f \in DOMAIN files \ {path} |-> files[f]]
  IN (path :> OutFile(JoinNL(expanded))) @@ removed

RECURSIVE SortNames(_)
\* The names of a directory listing, in name order.
SortNames(names) ==
  IF names = {} THEN <<>>
  ELSE LET first == CHOOSE n \in names : \A m \in names \ {n} : StrLess(n, m)
       IN <<first>> \o SortNames(names \ {first})

\* Get-ChildItem -Path $cache_dir -File
GetChildItem(files) == SortNames(DOMAIN files)

\* Lines 33, 45: Get-ChildItem | ForEach-Object { Get-Content } | Where-Object { $_ }
ListedObjects(files) ==
  LET names == GetChildItem(files)
  IN WhereTrue(Flatten([i \in 1..Len(names) |-> GetContent(files[names[i]])]))

\* RemoveOutput when the old archive is left where it is.
RemoveOutput_Kept(archs, path) == archs

\* Lines 35-37, 48-50: Remove-Item of the old archive, if there is one.
RemoveOutput(archs, path) == [p \in DOMAIN archs \ {path} |-> archs[p]]

\* The archiver run as "ar qc <output> <members>": q appends the members to
\* the archive, which c creates when it does not exist.
Archiver(archs, output, members) ==
  LET old == IF output \in DOMAIN archs THEN archs[output] ELSE <<>>
  IN (output :> (old \o members)) @@ archs

\* The exit status of $ar.
ArExit(fails) == IF fails THEN 1 ELSE 0

\* The archive $ar leaves: a run that fails leaves none.
ArchiverRun(archs, output, members, fails) ==
  IF fails THEN archs ELSE Archiver(archs, output, members)

\* How a run can end whose last statement, "& $ar ...", gave this exit status.
\* Line 7 makes errors of cmdlets terminating; the exit status of a native
\* command is not such an error and no line reads $LASTEXITCODE, so the script
\* itself goes on to its end. What its caller is told then is the host's
\* doing: started with -File a script that ends this way reports success,
\* started with -Command it reports the failure of its last statement.
NativeExitOutcomes(exit) == IF exit = 0 THEN {"ok"} ELSE {"ok", "error"}

\* Line 33.
MergeObjectFiles(files) == PSAssign(ListedObjects(files))

\* MergePhase2ObjectFiles without the @( ) around the pipeline.
MergePhase2ObjectFiles_NoArray(files) == PSPlusEq(PSAssign(ListedObjects(files)), core_o)

\* Lines 45-46.
MergePhase2ObjectFiles(files) == PSPlusEq(PSArray(ListedObjects(files)), core_o)

RunDone(args) ==
  /\ prevCommand' = (IF lastArgs = <<>> THEN <<>> ELSE lastArgs[1])
  /\ lastArgs' = args
  /\ runs' = runs + 1

\* RemoveCacheDir when only the directory entry goes and its files stay.
RemoveCacheDir_KeepFiles(dirExists, files) ==
  IF dirExists THEN [dir |-> FALSE, files |-> files]
               ELSE [dir |-> dirExists, files |-> files]

\* Lines 25-27: Remove-Item -Recurse -Force $cache_dir
RemoveCacheDir(dirExists, files) ==
  IF dirExists THEN [dir |-> FALSE, files |-> NoFiles]
               ELSE [dir |-> dirExists, files |-> files]

\* Line 28: New-Item -ItemType Directory -Force
NewCacheDir(fs) == [fs EXCEPT !.dir = TRUE]

\* Lines 24-29.
Clean ==
  /\ runs < MaxRuns
  /\ LET fs == NewCacheDir(RemoveCacheDir(EnsureCacheDir(cacheDirExists), cacheFiles))
     IN /\ cacheDirExists' = fs.dir
        /\ cacheFiles' = fs.files
        /\ writers' = [f \in DOMAIN writers \cap DOMAIN fs.files |-> writers[f]]
  /\ arCalls' = <<>>
  /\ outcome' = "ok"
  /\ RunDone(<<clean_cmd>>)
  /\ UNCHANGED <<rspFiles, archives, intended, ar_fails, LASTEXITCODE>>
  /\ UNCHANGED otherThanCache

\* Lines 32-40.
Merge ==
  /\ runs < MaxRuns
  /\ LET dir == EnsureCacheDir(cacheDirExists)
         object_files == MergeObjectFiles(cacheFiles)
     IN /\ cacheDirExists' = dir
        /\ IF dir
           THEN /\ archives' = ArchiverRun(RemoveOutput(archives, merge_output_1),
                                           merge_output_1, PSSplat(object_files),
                                           ar_fails)
                /\ arCalls' = << <<qc, merge_output_1>> \o PSSplat(object_files) >>
                /\ LASTEXITCODE' = ArExit(ar_fails)
                /\ outcome' \in NativeExitOutcomes(ArExit(ar_fails))
           ELSE /\ UNCHANGED <<archives, LASTEXITCODE>>
                /\ arCalls' = <<>>
                /\ outcome' = "error"
  /\ RunDone(<<merge_cmd>>)
  /\ UNCHANGED <<cacheFiles, rspFiles, intended, ar_fails, writers>>
  /\ UNCHANGED otherThanCache

\* Lines 44-52.
MergePhase2 ==
  /\ runs < MaxRuns
  /\ LET dir == EnsureCacheDir(cacheDirExists)
         object_files == MergePhase2ObjectFiles(cacheFiles)
     IN /\ cacheDirExists' = dir
        /\ IF dir
           THEN /\ archives' = ArchiverRun(RemoveOutput(archives, merge_output_2),
                                           merge_output_2, PSSplat(object_files),
                                           ar_fails)
                /\ arCalls' = << <<qc, merge_output_2>> \o PSSplat(object_files) >>
                /\ LASTEXITCODE' = ArExit(ar_fails)
                /\ outcome' \in NativeExitOutcomes(ArExit(ar_fails))
           ELSE /\ UNCHANGED <<archives, LASTEXITCODE>>
                /\ arCalls' = <<>>
                /\ outcome' = "error"
  /\ RunDone(<<merge_phase_2_cmd>>)
  /\ UNCHANGED <<cacheFiles, rspFiles, intended, ar_fails, writers>>
  /\ UNCHANGED otherThanCache

\* Lines 56-99: any other command is passed on to the archiver, and the
\* object files it names are recorded.
Default(args) ==
  /\ runs < MaxRuns
  /\ args[1] \notin {clean_cmd, merge_cmd, merge_phase_2_cmd}
  /\ LET command == args[1]
         output == remaining_args(args)[1]
         expanded_args == ExpandArgs(<<>>, object_args(args), rspFiles)
     IN /\ cacheDirExists' = EnsureCacheDir(cacheDirExists)
        /\ cacheFiles' = WriteListFile(cacheFiles, list_file(output), expanded_args)
        /\ writers' = (list_file(output) :> output) @@ writers
        /\ arCalls' = << <<command, output>> \o object_args(args) >>
        /\ intended' = (Sanitize(args[2]) :>
                          ExpandArgs(<<>>, SubSeq(args, 3, Len(args)), rspFiles))
                       @@ intended
  /\ LASTEXITCODE' = ArExit(ar_fails)
  /\ outcome' \in NativeExitOutcomes(ArExit(ar_fails))
  /\ RunDone(args)
  /\ UNCHANGED <<rspFiles, archives, ar_fails>>
  /\ UNCHANGED otherThanCache

\* The build system removes a response file once the command it was written
\* for has run.
DeleteResponseFile ==
  /\ rsp_name \in DOMAIN rspFiles
  /\ rspFiles' = [f \in DOMAIN rspFiles \ {rsp_name} |-> rspFiles[f]]
  /\ UNCHANGED <<cacheDirExists, cacheFiles, archives, arCalls, outcome, lastArgs,
                 prevCommand, intended, runs, ar_fails, LASTEXITCODE, writers>>
  /\ UNCHANGED otherThanCache

\* A fresh build tree: no cache directory yet, and the response file the build
\* system has written for the archive commands to come.
FreshTree ==
  /\ cacheDirExists = FALSE
  /\ cacheFiles = NoFiles
  /\ rspFiles = (rsp_name :> rsp_text)
  /\ archives = NoFiles
  /\ arCalls = <<>>
  /\ outcome = "ok"
  /\ lastArgs = <<>>
  /\ prevCommand = <<>>
  /\ intended = NoFiles
  /\ runs = 0
  /\ LASTEXITCODE = 0
  /\ writers = NoFiles

\* A fresh build tree, and an archiver that does its work.
CacheInit ==
  /\ FreshTree
  /\ ar_fails = FALSE

\* What getenv gives for a variable that is not set.
Null == <<"null">>
\* A result not computed yet.
Pending == <<"pending">>

\* The compiler process is not part of the build's behaviours.
ResolverIdle ==
  /\ process_path = <<>>
  /\ home = Null
  /\ resource_dir = <<>>
  /\ clang_path = <<>>
  /\ cxx = Null
  /\ jit_flags = <<>>
  /\ fsStatus = NoFiles
  /\ probes = NoFiles
  /\ clangResult = Pending
  /\ effectiveFlags = Pending

\* The AOT link step is not part of them either.
LinkIdle ==
  /\ library_dirs = <<>>
  /\ libs = <<>>
  /\ current_platform = "other"
  /\ compiler_args = Pending

\* The script processes that the build runs side by side.
Procs == {1, 2}

\* Script runs come one at a time.
ConcIdle ==
  /\ pc = [p \in Procs |-> "done"]
  /\ procArgs = [p \in Procs |-> <<>>]
  /\ startFiles = NoFiles

\* No JIT processor is started while the build runs.
PchIdle ==
  /\ pch_fs = NoFiles
  /\ pch_result = Pending
  /\ ensure_calls = 0
  /\ toolchain_runs = 0
  /\ pch_builds = 0
  /\ load_args = Pending

Init == CacheInit /\ ResolverIdle /\ LinkIdle /\ ConcIdle /\ PchIdle

Next ==
  \/ Clean
  \/ Merge
  \/ MergePhase2
  \/ \E args \in PassThroughArgs : Default(args)
  \/ DeleteResponseFile

Spec == Init /\ [][Next]_vars

\* A fresh build tree, and an archiver that may fail: a full disk, an object
\* file that is gone.
ArchiverInit ==
  /\ FreshTree
  /\ ar_fails \in BOOLEAN
  /\ ResolverIdle
  /\ LinkIdle
  /\ ConcIdle
  /\ PchIdle

SpecArchiver == ArchiverInit /\ [][Next]_vars

(***************************************************************************)
(* Properties of the archive cache.                                        *)
(***************************************************************************)
\* The list file of a sanitized key.
KeyFile(key) == cache_dir \o <<"/">> \o key \o <<".","l","i","s","t">>

\* The object list a record holds, as the merge reads it.
RecordOf(text) == WhereTrue(GetContent(text))

\* The keys that have a record in the cache.
RecordedKeys == {k \in DOMAIN intended : KeyFile(k) \in DOMAIN cacheFiles}

IsPassThrough(args) ==
  args # <<>> /\ args[1] \notin {clean_cmd, merge_cmd, merge_phase_2_cmd}

\* C1: every record of the cache belongs to one sanitized key, no key has
\* two records, and the record holds exactly the expanded object list of the
\* latest pass-through run for its key (replaced, never appended to).
C1_RecordIsLatestList ==
  /\ \A f \in DOMAIN cacheFiles : \E k \in DOMAIN intended : f = KeyFile(k)
  /\ \A k \in DOMAIN intended :
       /\ Cardinality({f \in DOMAIN cacheFiles : f = KeyFile(k)}) <= 1
       /\ KeyFile(k) \in DOMAIN cacheFiles
            => RecordOf(cacheFiles[KeyFile(k)]) = intended[k]

\* C2: the members merge hands to the archiver for the phase-1 archive are
\* the latest recorded object lists of the targets, concatenated in the
\* sorted order of their sanitized keys.
C2_MergeIsConcatenationOfLatest ==
  (lastArgs = <<merge_cmd>> /\ outcome = "ok")
    => LET keys == SortNames(RecordedKeys)
       IN arCalls = << <<qc, merge_output_1>>
                        \o Flatten([i \in 1..Len(keys) |-> intended[keys[i]]]) >>

C4_CleanThenMergeIsEmpty ==
  /\ lastArgs = <<clean_cmd>>
       => cacheDirExists /\ DOMAIN cacheFiles = {} /\ outcome = "ok"
  /\ (lastArgs = <<merge_cmd>> /\ prevCommand = clean_cmd)
       => /\ outcome = "ok"
          /\ cacheDirExists /\ DOMAIN cacheFiles = {}
          /\ arCalls = << <<qc, merge_output_1>> >>
          /\ merge_output_1 \in DOMAIN archives
          /\ archives[merge_output_1] = <<>>

C4_Witness ==
  /\ lastArgs = <<merge_cmd>>
  /\ prevCommand = clean_cmd
  /\ DOMAIN intended # {}
  /\ merge_output_1 \in DOMAIN archives

\* C5: a pass-through run with no object arguments ends without error and
\* leaves an empty record for its target: no entry at all, and so neither the
\* output path nor any other argument.
C5_EmptyObjectListGivesEmptyRecord ==
  (IsPassThrough(lastArgs) /\ Len(lastArgs) = 2)
    => /\ outcome = "ok"
       /\ list_file(lastArgs[2]) \in DOMAIN cacheFiles
       /\ RecordOf(cacheFiles[list_file(lastArgs[2])]) = <<>>

\* C6: no entry of a stored record is a response-file reference: none begins
\* with "@".
C6_NoResponseFileReferenceStored ==
  \A f \in DOMAIN cacheFiles :
    LET rec == RecordOf(cacheFiles[f])
    IN \A i \in 1..Len(rec) : Head(rec[i]) # "@"

\* C7: a pass-through run invokes the archiver exactly once, with the
\* arguments the script was given, unchanged.
C7_ArchiverGetsOriginalArguments ==
  IsPassThrough(lastArgs) => arCalls = <<lastArgs>>

\* C13: a record of the cache is changed or removed only by clean or by a
\* pass-through run for the sanitized key of that record; merge and
\* merge-phase-2 leave every file of the cache directory as it was.
C13_RecordsChangeOnlyByOwnKeyOrClean ==
  [][ /\ (runs' # runs /\ lastArgs' \in {<<merge_cmd>>, <<merge_phase_2_cmd>>})
           => cacheFiles' = cacheFiles
      /\ \A f \in DOMAIN cacheFiles :
           (f \notin DOMAIN cacheFiles' \/ cacheFiles'[f] # cacheFiles[f])
             => /\ runs' = runs + 1
                /\ \/ lastArgs' = <<clean_cmd>>
                   \/ /\ IsPassThrough(lastArgs')
                      /\ f = KeyFile(Sanitize(lastArgs'[2]))
    ]_vars

C13_Witness ==
  /\ runs = 3
  /\ IsPassThrough(lastArgs)
  /\ prevCommand \in {merge_cmd, merge_phase_2_cmd}
  /\ Cardinality(DOMAIN cacheFiles) = 2
  /\ merge_output_1 \in DOMAIN archives \/ merge_output_2 \in DOMAIN archives

\* C16: after merge the phase-1 archive holds exactly the objects the cache
\* lists now, and after merge-phase-2 the final archive holds those and the
\* core object, whatever an earlier merge had left at the output path; so a
\* second merge over the same cache gives the same members, none twice over.
C16_MergeStartsFromScratch ==
  /\ (lastArgs = <<merge_cmd>> /\ outcome = "ok")
       => /\ merge_output_1 \in DOMAIN archives
          /\ archives[merge_output_1] = ListedObjects(cacheFiles)
  /\ (lastArgs = <<merge_phase_2_cmd>> /\ outcome = "ok")
       => /\ merge_output_2 \in DOMAIN archives
          /\ archives[merge_output_2] = ListedObjects(cacheFiles) \o <<core_o>>

C16_Witness ==
  /\ lastArgs = <<merge_cmd>>
  /\ prevCommand = merge_cmd
  /\ merge_output_1 \in DOMAIN archives
  /\ Len(archives[merge_output_1]) >= 2

\* C17: when the archiver that merge or merge-phase-2 runs exits with a
\* nonzero status, the run ends in failure; and the archiver was run once.
C17_ArchiverFailureEndsMergeInFailure ==
  (lastArgs \in {<<merge_cmd>>, <<merge_phase_2_cmd>>} /\ LASTEXITCODE # 0)
    => /\ outcome = "error"
       /\ Len(arCalls) = 1

\* C18: runs with different output paths never write the same list file: a
\* list file that stays in the cache is the record of one output path for as
\* long as it stays, and no two output paths of the build have one list file.
C18_DistinctTargetsDistinctRecords ==
  [][ /\ \A f \in DOMAIN writers \cap DOMAIN writers' : writers'[f] = writers[f]
      /\ (IsPassThrough(lastArgs') /\ runs' # runs)
           => \A t \in Targets \ {lastArgs'[2]} :
                list_file(t) # list_file(lastArgs'[2])
    ]_vars

(***************************************************************************)
(* Pass-through runs of ar-merge.ps1 side by side: the build archives its  *)
(* targets in parallel, one script process for each, and the processes     *)
(* share the cache directory. A step is one statement of the script that   *)
(* reads or writes the file system.                                        *)
(***************************************************************************)
\* The cache a build may find: none yet, or the directory of an earlier build
\* with the record of one target in it.
StartCaches ==
  {[dir |-> FALSE, files |-> NoFiles]}
    \cup {[dir |-> TRUE, files |-> WriteListFile(NoFiles, list_file(t), <<b1_o>>)] :
            t \in Targets}

\* What no step of a pass-through run changes.
ConcFrame ==
  /\ UNCHANGED <<rspFiles, archives, outcome, lastArgs, prevCommand, intended, runs,
                 ar_fails, LASTEXITCODE, writers, procArgs, startFiles>>
  /\ UNCHANGED <<resolverVars, linkVars, pchVars>>

\* Line 91, by process p.
ListFileOf(p) == list_file(remaining_args(procArgs[p])[1])

\* Line 18: Test-Path $cache_dir
TestCacheDir(p) ==
  /\ pc[p] = "18"
  /\ pc' = [pc EXCEPT ![p] = IF ~cacheDirExists THEN "19" ELSE "91"]
  /\ UNCHANGED <<cacheDirExists, cacheFiles, arCalls>>
  /\ ConcFrame

\* Line 19: New-Item -ItemType Directory -Force, which is content with a
\* directory that is there already.
NewItemCacheDir(p) ==
  /\ pc[p] = "19"
  /\ cacheDirExists' = TRUE
  /\ pc' = [pc EXCEPT ![p] = "91"]
  /\ UNCHANGED <<cacheFiles, arCalls>>
  /\ ConcFrame

\* Line 91: Test-Path $list_file
TestListFile(p) ==
  /\ pc[p] = "91"
  /\ pc' = [pc EXCEPT ![p] = IF ListFileOf(p) \in DOMAIN cacheFiles THEN "92" ELSE "95"]
  /\ UNCHANGED <<cacheDirExists, cacheFiles, arCalls>>
  /\ ConcFrame

\* Line 92: Remove-Item $list_file -Force. A path that is not there is an
\* error, and line 7 makes the error end the script.
RemoveListFile(p) ==
  /\ pc[p] = "92"
  /\ IF ListFileOf(p) \in DOMAIN cacheFiles
     THEN /\ cacheFiles' = [f \in DOMAIN cacheFiles \ {ListFileOf(p)} |-> cacheFiles[f]]
          /\ pc' = [pc EXCEPT ![p] = "95"]
     ELSE /\ UNCHANGED cacheFiles
          /\ pc' = [pc EXCEPT ![p] = "error"]
  /\ UNCHANGED <<cacheDirExists, arCalls>>
  /\ ConcFrame

\* Line 95: $expanded_args -join "`n" | Out-File -FilePath $list_file
OutFileListFile(p) ==
  /\ pc[p] = "95"
  /\ cacheFiles' = (ListFileOf(p) :>
                      OutFile(JoinNL(ExpandArgs(<<>>, object_args(procArgs[p]), rspFiles))))
                   @@ cacheFiles
  /\ pc' = [pc EXCEPT ![p] = "98"]
  /\ UNCHANGED <<cacheDirExists, arCalls>>
  /\ ConcFrame

\* Line 98: & $ar $command $output @object_args
InvokeArchiver(p) ==
  /\ pc[p] = "98"
  /\ arCalls' = Append(arCalls, <<procArgs[p][1], remaining_args(procArgs[p])[1]>>
                                  \o object_args(procArgs[p]))
  /\ pc' = [pc EXCEPT ![p] = "done"]
  /\ UNCHANGED <<cacheDirExists, cacheFiles>>
  /\ ConcFrame

\* Two pass-through runs started together, over any cache of StartCaches.
ConcInit ==
  /\ \E c \in StartCaches :
       /\ cacheDirExists = c.dir
       /\ cacheFiles = c.files
       /\ startFiles = c.files
  /\ procArgs \in [Procs -> PassThroughArgs]
  /\ pc = [p \in Procs |-> "18"]
  /\ rspFiles = (rsp_name :> rsp_text)
  /\ archives = NoFiles
  /\ arCalls = <<>>
  /\ outcome = "ok"
  /\ lastArgs = <<>>
  /\ prevCommand = <<>>
  /\ intended = NoFiles
  /\ runs = 0
  /\ LASTEXITCODE = 0
  /\ writers = NoFiles
  /\ ar_fails = FALSE
  /\ ResolverIdle
  /\ LinkIdle
  /\ PchIdle

ConcNext ==
  \/ \E p \in Procs : TestCacheDir(p)
  \/ \E p \in Procs : NewItemCacheDir(p)
  \/ \E p \in Procs : TestListFile(p)
  \/ \E p \in Procs : RemoveListFile(p)
  \/ \E p \in Procs : OutFileListFile(p)
  \/ \E p \in Procs : InvokeArchiver(p)

SpecConc == ConcInit /\ [][ConcNext]_vars

(***************************************************************************)
(* Properties of runs side by side.                                        *)
(***************************************************************************)
Finished == \A p \in Procs : pc[p] \in {"done", "error"}

\* The cache after a pass-through run with these arguments, all by itself.
AfterRecord(files, args) ==
  WriteListFile(files, list_file(args[2]),
                ExpandArgs(<<>>, object_args(args), rspFiles))

\* C14: when two runs for different output paths have finished, whatever the
\* order of their steps, neither has ended in an error and the cache is the
\* one that either order of the two runs, one after the other, leaves.
C14_DifferentTargetsIndependent ==
  (Finished /\ procArgs[1][2] # procArgs[2][2])
    => /\ \A p \in Procs : pc[p] = "done"
       /\ cacheDirExists
       /\ cacheFiles = AfterRecord(AfterRecord(startFiles, procArgs[1]), procArgs[2])
       /\ cacheFiles = AfterRecord(AfterRecord(startFiles, procArgs[2]), procArgs[1])

\* C15: when two runs for the same output path have finished, whatever the
\* order of their steps, neither has ended in an error, and the record of the
\* target is there and holds the whole object list of one of the two runs.
C15_SameTargetLastWriterWins ==
  (Finished /\ procArgs[1][2] = procArgs[2][2])
    => /\ \A p \in Procs : pc[p] = "done"
       /\ ListFileOf(1) \in DOMAIN cacheFiles
       /\ \E p \in Procs :
            RecordOf(cacheFiles[ListFileOf(1)])
              = ExpandArgs(<<>>, SubSeq(procArgs[p], 3, Len(procArgs[p])), rspFiles)

(***************************************************************************)
(* The toolchain resolver: find_clang (util/clang.cpp) and the filtering   *)
(* of JANK_JIT_FLAGS (jit/processor.cpp).                                  *)
(***************************************************************************)
\* find_clang's "none".
NotFound == <<"none">>
\* An uncaught std::filesystem::filesystem_error ends the process.
Terminated == <<"terminate">>

StartsWith(str, prefix) ==
  Len(prefix) <= Len(str) /\ SubSeq(str, 1, Len(prefix)) = prefix

\* str.find(sub) != npos
Contains(str, sub) ==
  \E i \in 1..(Len(str) - Len(sub) + 1) : SubSeq(str, i, i + Len(sub) - 1) = sub

Users == <<"/","U","s","e","r","s","/">>
app_marker == <<".","a","p","p","/">>
bin_clang == <<"/","b","i","n","/","c","l","a","n","g","+","+">>
dash_I == <<"-","I">>

\* The machines the model runs the compiler on.
home_cam == Users \o <<"c","a","m">>
P_cam == home_cam \o <<"/","x">>
P_cameron == home_cam \o <<"e","r","o","n","/","x">>
P_bob == Users \o <<"b","o","b","/","x">>
P_opt == <<"/","o","p","t","/","x">>
I_cam == home_cam \o <<"/","i">>
I_bob == Users \o <<"b","o","b","/","i">>
I_opt == <<"/","o","p","t","/","i">>

\* Where the compiler is installed: the process path and the resource
\* directory beside it, for an application bundle and for a development
\* tree, each under a user's home and outside of it.
Installs ==
  { [process |-> <<"/","o","p","t","/","J",".","a","p","p","/","j">>,
     resources |-> <<"/","o","p","t","/","J",".","a","p","p","/","r">>],
    [process |-> home_cam \o <<"/","J",".","a","p","p","/","j">>,
     resources |-> home_cam \o <<"/","J",".","a","p","p","/","r">>],
    [process |-> <<"/","o","p","t","/","b","/","j">>,
     resources |-> <<"/","o","p","t","/","b","/","r">>],
    [process |-> home_cam \o <<"/","b","/","j">>,
     resources |-> home_cam \o <<"/","b","/","r">>] }
Homes == {Null, home_cam}
ClangPaths == {P_cam, P_cameron, P_opt}
CxxValues == {Null, P_bob, P_opt}
JitFlags ==
  { <<"-","O"," ">> \o dash_I \o I_cam \o <<" ">> \o dash_I \o I_opt,
    dash_I \o I_bob \o <<" "," ","-","g">> }

\* Line 117: resource_dir / "bin/clang++"
installed_path(rdir) == rdir \o bin_clang

\* Line 176.
is_app_bundle(ppath) == Contains(ppath, app_marker)

\* is_accessible_path as it was before bundles were detected (lines 157-161).
is_accessible_path_HomeOnly(path, ppath, hm) ==
  IF StartsWith(path, Users)
  THEN hm # Null /\ StartsWith(path, hm)
  ELSE TRUE

\* Lines 179-188.
is_accessible_path(path, ppath, hm) ==
  IF StartsWith(path, Users)
  THEN IF is_app_bundle(ppath) THEN FALSE
       ELSE hm # Null /\ StartsWith(path, hm)
  ELSE TRUE

\* std::filesystem::exists(path) without an error_code: an access error is
\* thrown.
Exists_Throwing(path, fs) ==
  [value |-> fs[path] = "exists", ec |-> FALSE, threw |-> fs[path] = "denied"]

\* Lines 96-97: std::filesystem::exists(path, ec): an access error gives false
\* and sets ec.
Exists(path, fs) ==
  [value |-> fs[path] = "exists", ec |-> fs[path] = "denied", threw |-> FALSE]

Probed(pr, path) == [pr EXCEPT ![path] = @ + 1]

\* if(exists(path, ec) && !ec) { return result = path; }, with the probe counted.
TryPath(st, path, fs) ==
  LET e == Exists(path, fs)
  IN [result |-> IF e.threw THEN Terminated
                 ELSE IF e.value /\ ~e.ec THEN path ELSE Pending,
      probes |-> Probed(st.probes, path)]

\* The candidates with JANK_CLANG_PATH first, as before the reordering.
Candidates_ConfiguredFirst(rdir, cpath, cx) ==
  << [path |-> cpath, guarded |-> TRUE],
     [path |-> installed_path(rdir), guarded |-> FALSE] >>
  \o (IF cx # Null THEN << [path |-> cx, guarded |-> TRUE] >> ELSE <<>>)

\* Lines 101, 114-123, 164: the bundled clang, then JANK_CLANG_PATH, then CXX
\* (when set); the last two are checked with is_accessible_path first.
Candidates(rdir, cpath, cx) ==
  << [path |-> installed_path(rdir), guarded |-> FALSE],
     [path |-> cpath, guarded |-> TRUE] >>
  \o (IF cx # Null THEN << [path |-> cx, guarded |-> TRUE] >> ELSE <<>>)

RECURSIVE TryCandidates(_, _, _, _, _)
TryCandidates(st, cands, fs, ppath, hm) ==
  IF cands = <<>> \/ st.result # Pending THEN st
  ELSE LET c == Head(cands)
           next == IF c.guarded /\ ~is_accessible_path(c.path, ppath, hm)
                   THEN st
                   ELSE TryPath(st, c.path, fs)
       IN TryCandidates(next, Tail(cands), fs, ppath, hm)

\* find_clang's answer when no candidate was returned.
NoCandidate(st) == [st EXCEPT !.result = IF @ = Pending THEN NotFound ELSE @]

find_clang(rdir, cpath, cx, fs, ppath, hm, pr) ==
  NoCandidate(TryCandidates([result |-> Pending, probes |-> pr],
                            Candidates(rdir, cpath, cx), fs, ppath, hm))

\* Line 135: std::getline(flags, flag, ' ')
SplitFlags(flags) == SplitOn(flags, <<>>, " ")

RECURSIVE FilterFlags_IncludesOnly(_, _, _, _, _)
\* FilterFlags without the else branch of line 147: only -I flags are kept.
FilterFlags_IncludesOnly(st, flags, fs, ppath, hm) ==
  IF flags = <<>> THEN st
  ELSE LET flag == Head(flags)
           path == SubSeq(flag, 3, Len(flag))
           next ==
             IF StartsWith(flag, dash_I)
             THEN IF ~is_accessible_path(path, ppath, hm) THEN st
                  ELSE LET e == Exists(path, fs)
                           pr == Probed(st.probes, path)
                       IN IF ~e.value \/ e.ec
                          THEN [st EXCEPT !.probes = pr]
                          ELSE [args |-> Append(st.args, flag), probes |-> pr]
             ELSE st
       IN FilterFlags_IncludesOnly(next, Tail(flags), fs, ppath, hm)

RECURSIVE FilterFlags(_, _, _, _, _)
\* Lines 135-149, with the check of lines 179-188 before the probe.
FilterFlags(st, flags, fs, ppath, hm) ==
  IF flags = <<>> THEN st
  ELSE LET flag == Head(flags)
           path == SubSeq(flag, 3, Len(flag))
           next ==
             IF StartsWith(flag, dash_I)
             THEN IF ~is_accessible_path(path, ppath, hm) THEN st
                  ELSE LET e == Exists(path, fs)
                           pr == Probed(st.probes, path)
                       IN IF ~e.value \/ e.ec
                          THEN [st EXCEPT !.probes = pr]
                          ELSE [args |-> Append(st.args, flag), probes |-> pr]
             ELSE [st EXCEPT !.args = Append(@, flag)]
       IN FilterFlags(next, Tail(flags), fs, ppath, hm)

\* The -I paths of a flag string.
IncludePaths(flags) ==
  LET fl == SplitFlags(flags)
  IN {SubSeq(fl[i], 3, Len(fl[i])) : i \in {j \in 1..Len(fl) : StartsWith(fl[j], dash_I)}}

\* The paths the process may look at.
KnownPaths(rdir, cpath, cx, flags) ==
  {installed_path(rdir), cpath} \cup (IF cx # Null THEN {cx} ELSE {})
    \cup IncludePaths(flags)

FindClang ==
  /\ clangResult = Pending
  /\ LET st == find_clang(resource_dir, clang_path, cxx, fsStatus, process_path,
                          home, probes)
     IN /\ clangResult' = st.result
        /\ probes' = st.probes
  /\ UNCHANGED <<process_path, home, resource_dir, clang_path, cxx, jit_flags,
                 fsStatus, effectiveFlags>>
  /\ UNCHANGED otherThanResolver

FilterJitFlags ==
  /\ effectiveFlags = Pending
  /\ clangResult # Terminated
  /\ LET st == FilterFlags([args |-> <<>>, probes |-> probes], SplitFlags(jit_flags),
                           fsStatus, process_path, home)
     IN /\ effectiveFlags' = st.args
        /\ probes' = st.probes
  /\ UNCHANGED <<process_path, home, resource_dir, clang_path, cxx, jit_flags,
                 fsStatus, clangResult>>
  /\ UNCHANGED otherThanResolver

\* Any machine: bundle or development tree, with or without HOME and CXX, and
\* any state of the paths involved.
ResolverInit ==
  /\ \E inst \in Installs :
       /\ process_path = inst.process
       /\ resource_dir = inst.resources
  /\ home \in Homes
  /\ clang_path \in ClangPaths
  /\ cxx \in CxxValues
  /\ jit_flags \in JitFlags
  /\ fsStatus \in [KnownPaths(resource_dir, clang_path, cxx, jit_flags)
                     -> {"exists", "absent", "denied"}]
  /\ probes = [p \in DOMAIN fsStatus |-> 0]
  /\ clangResult = Pending
  /\ effectiveFlags = Pending
  /\ CacheInit
  /\ LinkIdle
  /\ ConcIdle
  /\ PchIdle

ResolverNext ==
  \/ FindClang
  \/ FilterJitFlags

SpecResolver == ResolverInit /\ [][ResolverNext]_vars

(***************************************************************************)
(* Properties of the toolchain resolver.                                   *)
(***************************************************************************)
\* The candidates in the order of their priority: bundled, baked in, CXX.
PriorityOrder ==
  <<installed_path(resource_dir), clang_path>> \o (IF cxx # Null THEN <<cxx>> ELSE <<>>)

\* The candidates find_clang may return: those that exist, and that, unless
\* it is the bundled one, the path classification lets it look at.
Returnable ==
  {i \in 1..Len(PriorityOrder) :
     /\ fsStatus[PriorityOrder[i]] = "exists"
     /\ i = 1 \/ is_accessible_path(PriorityOrder[i], process_path, home)}

\* C8: find_clang returns the first candidate, in the order bundled, baked in,
\* CXX, that exists and is probed without error; a candidate whose probe is
\* denied counts as missing; with no such candidate the result is NotFound,
\* and the process never terminates on a probe.
C8_FirstAccessibleCandidateWins ==
  clangResult # Pending
    => /\ clangResult # Terminated
       /\ IF Returnable = {}
          THEN clangResult = NotFound
          ELSE LET first == CHOOSE i \in Returnable : \A j \in Returnable : i <= j
               IN clangResult = PriorityOrder[first]

C8_Witness ==
  /\ clangResult = clang_path
  /\ clang_path # installed_path(resource_dir)
  /\ fsStatus[installed_path(resource_dir)] = "denied"
  /\ cxx # Null /\ cxx # clang_path /\ fsStatus[cxx] = "exists"

Under(path, dir) == path = dir \/ StartsWith(path, dir \o <<"/">>)

\* The paths the classification is applied to: JANK_CLANG_PATH, CXX and the
\* include paths.
ClassifiedPaths ==
  ({clang_path} \cup (IF cxx # Null THEN {cxx} ELSE {}) \cup IncludePaths(jit_flags))
    \ {installed_path(resource_dir)}

\* C10: in development mode a path under /Users/ that is not in the current
\* user's home directory, or any such path when HOME is not set, is never
\* probed; one in the current user's home directory is returned by find_clang
\* only after a probe found it.
C10_DevelopmentProbesOnlyOwnHome ==
  ~is_app_bundle(process_path)
    => \A p \in ClassifiedPaths :
         StartsWith(p, Users)
           => IF home = Null \/ ~Under(p, home)
              THEN probes[p] = 0 /\ clangResult # p
              ELSE clangResult = p => (probes[p] >= 1 /\ fsStatus[p] = "exists")


\* Whether the filter is to keep a flag: any flag that is not an -I flag, and
\* an -I flag whose path the classification lets through and the probe finds.
Retained(flag) ==
  StartsWith(flag, dash_I)
    => LET path == SubSeq(flag, 3, Len(flag))
       IN /\ is_accessible_path(path, process_path, home)
          /\ fsStatus[path] = "exists"

\* C11: the flags kept from JANK_JIT_FLAGS are the flags of the input that are
\* not -I flags, and the -I flags whose path passes the classification and the
\* existence check, each verbatim and in the order of the input; nothing else
\* is kept and nothing is reordered.
C11_FilterKeepsOrderedSubsequence ==
  effectiveFlags # Pending
    => effectiveFlags = SelectSeq(SplitFlags(jit_flags), Retained)

C11_Witness ==
  /\ effectiveFlags = << <<"-","O">>, dash_I \o I_opt >>
  /\ Len(SplitFlags(jit_flags)) = 3
  /\ fsStatus[I_cam] = "exists"


(***************************************************************************)
(* The link command composer: the linker arguments of the AOT processor    *)
(* (aot/processor.cpp).                                                    *)
(***************************************************************************)
dash_L == <<"-","L">>
dash_l == <<"-","l">>
dash_framework == <<"-","f","r","a","m","e","w","o","r","k">>

\* What the user may give with -L and -l.
DirNames == { <<"d">>, <<"e">> }
LibNames == { <<"g">>, <<"z">> }
Platforms == {"macos_like", "other"}
DirLists == UNION {[1..n -> DirNames] : n \in 0..MaxLibs}
LibLists == UNION {[1..n -> LibNames] : n \in 0..MaxLibs}

\* The merged archive the cache has produced, which the link starts from.
MergedArchives == <<merge_output_2>>

\* Line 13: one -L flag for every entry of opts.library_dirs.
LibraryDirFlags(dirs) == [i \in 1..Len(dirs) |-> dash_L \o dirs[i]]

\* The linker arguments before line 21 was added: no -l flag at all.
UserLibFlags_Skipped(ls) == <<>>

\* Lines 21-24: util::format("-l{}", lib) for every entry of opts.libs.
UserLibFlags(ls) == [i \in 1..Len(ls) |-> dash_l \o ls[i]]

\* Line 57.
Frameworks ==
  << <<"O","p","e","n","G","L">>, <<"C","o","c","o","a">>, <<"I","O","K","i","t">>,
     <<"C","o","r","e","F","o","u","n","d","a","t","i","o","n">> >>

\* Lines 55-62: "-framework", name for every framework, on macOS only.
FrameworkFlags(platform) ==
  IF platform = "macos_like"
  THEN Flatten([i \in 1..Len(Frameworks) |-> <<dash_framework, Frameworks[i]>>])
  ELSE <<>>

\* compiler_args as the AOT processor pushes them: the archive, the -L loop,
\* the -l loop after it, the frameworks after the user libraries.
compose_link_args(dirs, ls, platform) ==
  MergedArchives \o LibraryDirFlags(dirs) \o UserLibFlags(ls) \o FrameworkFlags(platform)

ComposeLinkArgs ==
  /\ compiler_args = Pending
  /\ compiler_args' = compose_link_args(library_dirs, libs, current_platform)
  /\ UNCHANGED <<library_dirs, libs, current_platform>>
  /\ UNCHANGED otherThanLink

\* Any command line of jank compile, on either platform.
LinkInit ==
  /\ library_dirs \in DirLists
  /\ libs \in LibLists
  /\ current_platform \in Platforms
  /\ compiler_args = Pending
  /\ CacheInit
  /\ ResolverIdle
  /\ ConcIdle
  /\ PchIdle

LinkNext ==
  \/ ComposeLinkArgs

SpecLink == LinkInit /\ [][LinkNext]_vars

(***************************************************************************)
(* Properties of the link command composer.                                *)
(***************************************************************************)
\* C12: the AOT linker arguments are, in this order, the merged archive, one
\* -L flag for every library directory, one -l flag for every library name
\* (none left out, in list order), and then, on macOS only, the four
\* framework pairs; on any other platform nothing follows the -l flags.
C12_LinkArgsInOrder ==
  compiler_args # Pending
    => LET a == Len(MergedArchives)
           d == Len(library_dirs)
           l == Len(libs)
           rest == SubSeq(compiler_args, a + d + l + 1, Len(compiler_args))
       IN /\ Len(compiler_args) >= a + d + l
          /\ SubSeq(compiler_args, 1, a) = <<merge_output_2>>
          /\ \A i \in 1..d : compiler_args[a + i] = dash_L \o library_dirs[i]
          /\ \A i \in 1..l : compiler_args[a + d + i] = dash_l \o libs[i]
          /\ IF current_platform = "macos_like"
             THEN rest = << dash_framework, <<"O","p","e","n","G","L">>,
                            dash_framework, <<"C","o","c","o","a">>,
                            dash_framework, <<"I","O","K","i","t">>,
                            dash_framework,
                            <<"C","o","r","e","F","o","u","n","d","a","t","i","o","n">> >>
             ELSE rest = <<>>

C12_Witness ==
  /\ compiler_args # Pending
  /\ current_platform = "macos_like"
  /\ Len(library_dirs) = 2
  /\ Len(libs) = 2 /\ libs[1] # libs[2]
  /\ Len(compiler_args) = 13


(***************************************************************************)
(* The precompiled header: find_pch and build_pch (util/clang.cpp) and the *)
(* arguments that load it (jit/processor.cpp).                             *)
(***************************************************************************)
\* The two places the header is looked for, and the place it is built at.
pch_dev_path == <<"/","d","e","v","/","p",".","p","c","h">>
pch_installed_path == <<"/","i","n","s","t","/","p",".","p","c","h">>

\* The two places of prelude.hpp, the header it is built from.
prelude_include_path == <<"/","d","e","v","/","p",".","h","p","p">>
prelude_install_path == <<"/","i","n","s","t","/","p",".","h","p","p">>

\* A build of the header that failed.
BuildFailed == <<"failed">>

\* Line 102: dev_path, then installed_path, each with exists(path, ec) && !ec.
find_pch(fs) ==
  LET dev == Exists(pch_dev_path, fs)
      inst == Exists(pch_installed_path, fs)
  IN IF dev.value /\ ~dev.ec THEN pch_dev_path
     ELSE IF inst.value /\ ~inst.ec THEN pch_installed_path
     ELSE NotFound

\* Line 103: include_path, then install_path, each with exists(path, ec) && !ec.
find_prelude(fs) ==
  LET inc == Exists(prelude_include_path, fs)
      inst == Exists(prelude_install_path, fs)
  IN IF inc.value /\ ~inc.ec THEN prelude_include_path
     ELSE IF inst.value /\ ~inst.ec THEN prelude_install_path
     ELSE NotFound

\* build_pch: without prelude.hpp there is nothing to run the toolchain on;
\* with it the toolchain is run, and leaves the header at the installed path
\* when it succeeds, which it cannot where that path is out of reach.
build_pch(fs, ok) ==
  IF find_prelude(fs) = NotFound
  THEN [result |-> BuildFailed, fs |-> fs, ran |-> 0]
  ELSE IF ok /\ fs[pch_installed_path] # "denied"
       THEN [result |-> pch_installed_path,
             fs |-> [fs EXCEPT ![pch_installed_path] = "exists"], ran |-> 1]
       ELSE [result |-> BuildFailed, fs |-> fs, ran |-> 1]

include_pch == <<"-","i","n","c","l","u","d","e","-","p","c","h">>
Xclang == <<"-","X","c","l","a","n","g">>
fno_validate_pch == <<"-","f","n","o","-","v","a","l","i","d","a","t","e","-","p","c","h">>

\* load_flags without lines 208-209.
load_flags_Validating(pch_path) == <<include_pch, pch_path>>

\* Lines 204-209.
load_flags(pch_path) == <<include_pch, pch_path, Xclang, fno_validate_pch>>

\* ensure_built: the header that is found is returned; only when there is
\* none is the toolchain run.
EnsureBuilt ==
  /\ ensure_calls < MaxEnsureCalls
  /\ ensure_calls' = ensure_calls + 1
  /\ LET found == find_pch(pch_fs)
     IN IF found # NotFound
        THEN /\ pch_result' = found
             /\ UNCHANGED <<pch_fs, toolchain_runs, pch_builds>>
        ELSE \E ok \in BOOLEAN :
               LET built == build_pch(pch_fs, ok)
               IN /\ pch_result' = built.result
                  /\ pch_fs' = built.fs
                  /\ toolchain_runs' = toolchain_runs + built.ran
                  /\ pch_builds' = pch_builds + (IF built.result # BuildFailed THEN 1 ELSE 0)
  /\ UNCHANGED load_args
  /\ UNCHANGED otherThanPch

\* The JIT processor adds the arguments that load the header it was given.
LoadFlags ==
  /\ pch_result \notin {Pending, BuildFailed}
  /\ load_args' = load_flags(pch_result)
  /\ UNCHANGED <<pch_fs, pch_result, ensure_calls, toolchain_runs, pch_builds>>
  /\ UNCHANGED otherThanPch

\* Any machine: the header at either place, at both or at none, with either
\* place out of reach.
PchInit ==
  /\ pch_fs \in [{pch_dev_path, pch_installed_path, prelude_include_path,
                   prelude_install_path} -> {"exists", "absent", "denied"}]
  /\ pch_result = Pending
  /\ ensure_calls = 0
  /\ toolchain_runs = 0
  /\ pch_builds = 0
  /\ load_args = Pending
  /\ CacheInit
  /\ ResolverIdle
  /\ LinkIdle
  /\ ConcIdle

PchNext ==
  \/ EnsureBuilt
  \/ LoadFlags

SpecPch == PchInit /\ [][PchNext]_vars

(***************************************************************************)
(* Properties of the precompiled header.                                   *)
(***************************************************************************)
\* The header is there: at one of the two places, and within reach.
Built == find_pch(pch_fs) # NotFound

\* C19: once the header is built it stays built; an ensure_built call that
\* finds it returns the place it is at, the development path before the
\* installed one, and runs no toolchain, so that the toolchain builds the
\* header at most once; and the arguments that load a header hold
\* -fno-validate-pch.
C19_BuiltOnceNeverValidated ==
  [][ /\ Built => Built'
      /\ Built => /\ toolchain_runs' = toolchain_runs
                  /\ pch_builds' = pch_builds
                  /\ pch_fs' = pch_fs
                  /\ ensure_calls' # ensure_calls
                       => pch_result' = (IF pch_fs[pch_dev_path] = "exists"
                                         THEN pch_dev_path ELSE pch_installed_path)
      /\ pch_builds' <= 1
      /\ pch_builds' = 1 => Built'
      /\ load_args' # Pending
           => \E i \in 1..Len(load_args') :
                load_args'[i] = <<"-","f","n","o","-","v","a","l","i","d","a","t","e","-","p","c","h">>
    ]_vars

C19_Witness ==
  /\ ensure_calls = 3
  /\ toolchain_runs = 2
  /\ pch_builds = 1
  /\ pch_result = pch_installed_path
  /\ pch_fs[pch_dev_path] = "denied"
  /\ load_args # Pending

====
